---------------------------- MODULE Spec2Model ----------------------------
(***************************************************************************)
(* GCSToS3Operator (airflow/providers/amazon/aws/transfers/gcs_to_s3.py).  *)
(*                                                                         *)
(* Strings are sequences of tokens: the token "/" is the path separator,   *)
(* every other token is a run of non-separator characters, and the token   *)
(* S3Loc is the "s3://<bucket>" head of an S3 URL.  startswith, endswith,  *)
(* lstrip, replace and os.path.join only ever look at separators and at    *)
(* whole prefixes that end with a separator, so they act on tokens as they *)
(* act on characters.  An absent (None) or empty prefix is <<>>: the code  *)
(* only tests its truth value.                                             *)
(***************************************************************************)
EXTENDS Naturals, Sequences, FiniteSets

VARIABLES
    args,      \* the arguments the operator was constructed with
    self,      \* the operator's request fields (self.<field>)
    entry,     \* self as it was when the current execute was called
    gcs,       \* names of the objects hook.list finds in the source bucket
    s3,        \* keys present in the destination bucket
    pc,        \* position of execute
    run,       \* number of the current execute call
    srcFiles,  \* what hook.list returned (files at line 148)
    files,     \* the local files after line 176
    listing,   \* the call to s3_hook.list_keys of this run and its result
    i,         \* index in files of the object the loop is at
    tmp,       \* names whose temporary local file is held
    fetched,   \* names whose provide_file was entered in this run, in order
    written,   \* [name, key] of every load_file that succeeded in this run
    err,       \* the failure that aborted the run, "none" if none
    result     \* the list execute returned

vars == <<args, self, entry, gcs, s3, pc, run, srcFiles, files, listing, i,
          tmp, fetched, written, err, result>>

(* ------------------------------ bounds -------------------------------- *)

MaxSrc == 2
MaxDst == 1
MaxRuns == 2

(* ------------------------------ strings ------------------------------- *)

Sep == "/"
S3Loc == "s3://bucket"

Range(s) == {s[k] : k \in 1..Len(s)}

StartsWithSep(s) == Len(s) > 0 /\ s[1] = Sep
EndsWithSep(s) == Len(s) > 0 /\ s[Len(s)] = Sep

StartsWith(s, p) == Len(p) <= Len(s) /\ SubSeq(s, 1, Len(p)) = p

\* posixpath.join(a, b)
PathJoin(a, b) ==
    IF StartsWithSep(b) THEN b
    ELSE IF a = <<>> \/ EndsWithSep(a) THEN a \o b
    ELSE a \o <<Sep>> \o b

\* s.lstrip("/")
RECURSIVE LStripSep(_)
LStripSep(s) == IF StartsWithSep(s) THEN LStripSep(Tail(s)) ELSE s

\* s.replace(old, "", 1): the leftmost occurrence of old removed
RECURSIVE FindFrom(_, _, _)
FindFrom(s, old, k) ==
    IF k + Len(old) - 1 > Len(s) THEN 0
    ELSE IF SubSeq(s, k, k + Len(old) - 1) = old THEN k
    ELSE FindFrom(s, old, k + 1)

ReplaceFirst(s, old) ==
    LET k == FindFrom(s, old, 1)
    IN  IF k = 0 THEN s
        ELSE SubSeq(s, 1, k - 1) \o SubSeq(s, k + Len(old), Len(s))

(* --------------------------- the two stores --------------------------- *)

\* S3Hook.parse_s3_url: bucket and key of "s3://<bucket>/<key>"
ParseS3Url(url) ==
    IF Len(url) > 0 /\ url[1] = S3Loc
    THEN [ok |-> TRUE, bucket |-> url[1], key |-> LStripSep(Tail(url))]
    ELSE [ok |-> FALSE, bucket |-> "", key |-> <<>>]

\* the keys s3_hook.list_keys finds under prefix
ListKeys(keys, prefix) == {k \in keys : StartsWith(k, prefix)}

\* every order a Python list built from the set S can have
Orders(S) ==
    {q \in [1..Cardinality(S) -> S] : \A x \in S : \E k \in 1..Cardinality(S) : q[k] = x}

(* ------------------------- bounded input sets ------------------------- *)

\* object names of the source bucket; one starts with a separator
Names ==
    { <<"a.csv">>, <<"b.csv">>, <<"logs", Sep, "2024", Sep, "a.txt">>,
      <<Sep, "a.csv">> }

\* values of the prefix argument; <<>> is "not given"
Prefixes == { <<>>, <<"logs">>, <<Sep, "logs">> }

\* values of the dest_s3_key argument
DestKeys ==
    { <<S3Loc>>, <<S3Loc, Sep>>, <<S3Loc, Sep, "archive">>,
      <<S3Loc, Sep, "archive", Sep>>, <<S3Loc, Sep, "archive", Sep, Sep>> }

\* keys the destination bucket may hold before the first run
DstKeys ==
    { <<"a.csv">>, <<"archive", Sep, "a.csv">>, <<"archive", Sep, Sep, "a.csv">>,
      <<"archive", Sep, "logs", Sep, "a.csv">>,
      <<"archive", Sep, "logs", Sep, "logs", Sep, "2024", Sep, "a.txt">>,
      <<"other", Sep, "a.csv">> }

\* GCSToS3Operator.__init__
Operator(prefix, dest_s3_key, replace, keep_directory_structure) ==
    [ bucket |-> "gcs-bucket",
      prefix |-> prefix,
      match_glob |-> "None",
      dest_s3_key |-> dest_s3_key,
      keep_directory_structure |-> keep_directory_structure,
      replace |-> replace,
      s3_acl_policy |-> "None",
      dest_s3_extra_args |-> <<>> ]

NoListing == [called |-> FALSE, prefix |-> <<>>, none |-> FALSE, keys |-> {}]

Init ==
    /\ args \in { Operator(p, d, r, k) :
                    p \in Prefixes, d \in DestKeys, r \in BOOLEAN, k \in BOOLEAN }
    /\ self = args
    /\ entry = args
    /\ gcs \in {S \in SUBSET Names : Cardinality(S) <= MaxSrc}
    /\ s3 \in {S \in SUBSET DstKeys : Cardinality(S) <= MaxDst}
    /\ pc = "list_gcs"
    /\ run = 1
    /\ srcFiles = <<>>
    /\ files = <<>>
    /\ listing = NoListing
    /\ i = 1
    /\ tmp = {}
    /\ fetched = <<>>
    /\ written = <<>>
    /\ err = "none"
    /\ result = <<>>

(* ------------------------------ execute ------------------------------- *)

\* an exception leaves execute: nothing else of the run happens
Raise(kind) ==
    /\ pc' = "aborted"
    /\ err' = kind

\* lines 148-150: files = hook.list(...)
ListGcs ==
    /\ pc = "list_gcs"
    /\ \E q \in Orders(gcs) :
         /\ srcFiles' = q
         /\ files' = q
    /\ pc' = "sync"
    /\ UNCHANGED <<args, self, entry, gcs, s3, run, listing, i, tmp, fetched,
                   written, err, result>>

ListGcsFail ==
    /\ pc = "list_gcs"
    /\ Raise("ListingFailure")
    /\ UNCHANGED <<args, self, entry, gcs, s3, run, srcFiles, files, listing, i,
                   tmp, fetched, written, result>>

\* mutant: the prefix is appended whatever keep_directory_structure is
EffectiveDestKey_Always(o) ==
    IF o.prefix # <<>>
    THEN PathJoin(o.dest_s3_key, o.prefix)
    ELSE o.dest_s3_key

\* lines 156-157: the value self.dest_s3_key has from line 158 on
EffectiveDestKey(o) ==
    IF ~o.keep_directory_structure /\ o.prefix # <<>>
    THEN PathJoin(o.dest_s3_key, o.prefix)
    ELSE o.dest_s3_key

\* lines 156-157: the assignment to self.dest_s3_key
ResolveDestKey == self' = [self EXCEPT !.dest_s3_key = EffectiveDestKey(self)]

\* mutant: the separator is appended to the empty prefix too
NormalizePrefix_Always(prefix) ==
    IF EndsWithSep(prefix) THEN prefix ELSE prefix \o <<Sep>>

\* lines 167-168
NormalizePrefix(prefix) ==
    IF prefix # <<>>
    THEN IF EndsWithSep(prefix) THEN prefix ELSE prefix \o <<Sep>>
    ELSE prefix

\* mutant: the prefix is left on the existing keys
ExistingFiles_NoStrip(res, prefix) ==
    IF res.none THEN {} ELSE res.keys

\* lines 173-175: existing_files, None read as [], the prefix removed
ExistingFiles(res, prefix) ==
    {ReplaceFirst(k, prefix) : k \in (IF res.none THEN {} ELSE res.keys)}

\* line 176: list(set(files) - set(existing_files)), in the order the set iterates
ToTransfer(fs, existing) == Orders(Range(fs) \ existing)

\* mutant: the destination is listed and subtracted with replace set too
KeepAll_Diff ==
    /\ pc = "sync"
    /\ self.replace
    /\ ResolveDestKey
    /\ LET url == ParseS3Url(self'.dest_s3_key)
           prefix == NormalizePrefix(url.key)
           found == ListKeys(s3, prefix)
       IN  /\ url.ok
           /\ listing' = [called |-> TRUE, prefix |-> prefix,
                          none |-> FALSE, keys |-> found]
           /\ files' \in ToTransfer(files, ExistingFiles(listing', prefix))
    /\ pc' = "loop"
    /\ UNCHANGED <<args, entry, gcs, s3, run, srcFiles, i, tmp, fetched, written,
                   err, result>>

\* lines 156-159, replace set: every listed object is kept
KeepAll ==
    /\ pc = "sync"
    /\ self.replace
    /\ ResolveDestKey
    /\ pc' = "loop"
    /\ UNCHANGED <<args, entry, gcs, s3, run, srcFiles, files, listing, i, tmp,
                   fetched, written, err, result>>

\* lines 156-163: parse_s3_url raises
SyncParseFail ==
    /\ pc = "sync"
    /\ ~self.replace
    /\ ResolveDestKey
    /\ ~ParseS3Url(self'.dest_s3_key).ok
    /\ Raise("InvalidRequest")
    /\ UNCHANGED <<args, entry, gcs, s3, run, srcFiles, files, listing, i, tmp,
                   fetched, written, result>>

\* lines 156-171: list_keys raises
SyncListFail ==
    /\ pc = "sync"
    /\ ~self.replace
    /\ ResolveDestKey
    /\ LET url == ParseS3Url(self'.dest_s3_key)
       IN  /\ url.ok
           /\ listing' = [NoListing EXCEPT !.called = TRUE,
                                           !.prefix = NormalizePrefix(url.key)]
    /\ Raise("ListingFailure")
    /\ UNCHANGED <<args, entry, gcs, s3, run, srcFiles, files, i, tmp, fetched,
                   written, result>>

\* lines 156-176
SyncDiff ==
    /\ pc = "sync"
    /\ ~self.replace
    /\ ResolveDestKey
    /\ LET url == ParseS3Url(self'.dest_s3_key)
           prefix == NormalizePrefix(url.key)
           found == ListKeys(s3, prefix)
       IN  /\ url.ok
           /\ \E none \in (IF found = {} THEN BOOLEAN ELSE {FALSE}) :
                /\ listing' = [called |-> TRUE, prefix |-> prefix,
                               none |-> none, keys |-> found]
                /\ files' \in ToTransfer(files, ExistingFiles(listing', prefix))
    /\ pc' = "loop"
    /\ UNCHANGED <<args, entry, gcs, s3, run, srcFiles, i, tmp, fetched, written,
                   err, result>>

\* line 181: provide_file is entered for files[i] and yields the local file
Fetch ==
    /\ pc = "loop"
    /\ i <= Len(files)
    /\ tmp' = tmp \cup {files[i]}
    /\ fetched' = Append(fetched, files[i])
    /\ pc' = "holding"
    /\ UNCHANGED <<args, self, entry, gcs, s3, run, srcFiles, files, listing, i,
                   written, err, result>>

\* line 181: provide_file raises, the download failed
FetchFail ==
    /\ pc = "loop"
    /\ i <= Len(files)
    /\ fetched' = Append(fetched, files[i])
    /\ Raise("FetchFailure")
    /\ UNCHANGED <<args, self, entry, gcs, s3, run, srcFiles, files, listing, i,
                   tmp, written, result>>

\* line 182
DestKey == PathJoin(self.dest_s3_key, files[i])

\* lines 182-190 and the end of the with block: load_file stores the object
WriteOk ==
    /\ pc = "holding"
    /\ LET url == ParseS3Url(DestKey)
       IN  /\ url.ok
           /\ self.replace \/ url.key \notin s3
           /\ s3' = s3 \cup {url.key}
    /\ written' = Append(written, [name |-> files[i], key |-> DestKey])
    /\ tmp' = tmp \ {files[i]}
    /\ i' = i + 1
    /\ pc' = "loop"
    /\ UNCHANGED <<args, self, entry, gcs, run, srcFiles, files, listing, fetched,
                   err, result>>

\* mutant: a failed write is logged and the loop goes on
WriteFail_Skip ==
    /\ pc = "holding"
    /\ tmp' = tmp \ {files[i]}
    /\ err' = "WriteFailure"
    /\ i' = i + 1
    /\ pc' = "loop"
    /\ UNCHANGED <<args, self, entry, gcs, s3, run, srcFiles, files, listing,
                   fetched, written, result>>

\* mutant: the temporary file outlives a failed write
WriteFail_KeepsFile ==
    /\ pc = "holding"
    /\ Raise("WriteFailure")
    /\ UNCHANGED <<args, self, entry, gcs, s3, run, srcFiles, files, listing, i,
                   tmp, fetched, written, result>>

\* lines 182-190 and the end of the with block: load_file raises
WriteFail ==
    /\ pc = "holding"
    /\ tmp' = tmp \ {files[i]}
    /\ Raise("WriteFailure")
    /\ UNCHANGED <<args, self, entry, gcs, s3, run, srcFiles, files, listing, i,
                   fetched, written, result>>

\* mutant: the source listing is returned
Return_Listing ==
    /\ pc = "loop"
    /\ i > Len(files)
    /\ result' = srcFiles
    /\ pc' = "done"
    /\ UNCHANGED <<args, self, entry, gcs, s3, run, srcFiles, files, listing, i,
                   tmp, fetched, written, err>>

\* lines 178-196: the loop is over (or files is empty), return files
Return ==
    /\ pc = "loop"
    /\ i > Len(files)
    /\ result' = files
    /\ pc' = "done"
    /\ UNCHANGED <<args, self, entry, gcs, s3, run, srcFiles, files, listing, i,
                   tmp, fetched, written, err>>

\* execute is called again, on the same operator or on one built from the
\* same arguments; the source bucket is as it was
Rerun ==
    /\ pc = "done"
    /\ run < MaxRuns
    /\ \E fresh \in BOOLEAN :
         /\ self' = IF fresh THEN args ELSE self
         /\ entry' = self'
    /\ run' = run + 1
    /\ pc' = "list_gcs"
    /\ srcFiles' = <<>>
    /\ files' = <<>>
    /\ listing' = NoListing
    /\ i' = 1
    /\ fetched' = <<>>
    /\ written' = <<>>
    /\ result' = <<>>
    /\ UNCHANGED <<args, gcs, s3, tmp, err>>

Next ==
    \/ ListGcs
    \/ ListGcsFail
    \/ KeepAll
    \/ SyncParseFail
    \/ SyncListFail
    \/ SyncDiff
    \/ Fetch
    \/ FetchFail
    \/ WriteOk
    \/ WriteFail
    \/ Return
    \/ Rerun

Spec == Init /\ [][Next]_vars


(* ------------------------------ claims -------------------------------- *)

NamesOf(ws) == [k \in 1..Len(ws) |-> ws[k].name]

NoDuplicates(q) == \A a, b \in 1..Len(q) : q[a] = q[b] => a = b

\* the key under which load_file stored the object given as dest_key
StoredKey(destKey) == ParseS3Url(destKey).key

\* k without its first Len(p) tokens
DropLeft(k, p) == SubSeq(k, Len(p) + 1, Len(k))

\* candidates - existingStripped of the current run
Missing == Range(srcFiles) \ {DropLeft(k, listing.prefix) : k \in listing.keys}

\* C1: with replace = false the names fetched and written are the source
\* listing minus the destination listing with the normalized prefix removed
\* from the left (a None listing is the empty one and raises nothing); so no
\* object is written to a key the destination listing of the run holds.
C1_SyncOnlyMissing ==
    ~self.replace =>
        /\ listing.none => listing.keys = {} /\ err # "ListingFailure"
        /\ \A k \in listing.keys : StartsWith(k, listing.prefix)
        /\ Range(fetched) \subseteq Missing
        /\ \A w \in Range(written) :
             /\ w.name \in Missing
             /\ StoredKey(w.key) \notin listing.keys
        /\ pc = "done" =>
             /\ listing.called
             /\ Range(fetched) = Missing
             /\ Range(NamesOf(written)) = Missing
             /\ Range(result) = Missing

\* Scenario B: some listed objects were at the destination and were skipped,
\* the others were written
C1_Witness ==
    /\ pc = "done"
    /\ ~self.replace
    /\ listing.prefix # <<>>
    /\ listing.keys # {}
    /\ written # <<>>
    /\ Len(written) < Len(srcFiles)

\* the same with the destination listing None
C1_WitnessNone ==
    /\ pc = "done"
    /\ ~self.replace
    /\ listing.none
    /\ Len(written) = MaxSrc

\* C2: with replace = false, an execute that follows a completed one, with
\* the source unchanged, fetches nothing, writes nothing and returns [].
C2_SecondRunTransfersNothing ==
    (run >= 2 /\ ~self.replace) =>
        /\ fetched = <<>>
        /\ written = <<>>
        /\ pc = "done" => result = <<>>

\* C2 on an operator that enters execute with the arguments it was built with
C2_FreshOperatorTransfersNothing ==
    (run >= 2 /\ ~self.replace /\ entry = args) =>
        /\ fetched = <<>>
        /\ written = <<>>
        /\ pc = "done" => result = <<>>

\* C3: with replace = true the destination is never listed, and the names
\* fetched, written and returned are the whole source listing, in its order,
\* whatever the destination holds.
C3_ReplaceTransfersAll ==
    self.replace =>
        /\ ~listing.called
        /\ pc \in {"sync", "loop", "holding", "done"} =>
             Range(srcFiles) = gcs /\ files = srcFiles
        /\ NamesOf(written) = SubSeq(srcFiles, 1, Len(written))
        /\ pc = "done" =>
             /\ result = srcFiles
             /\ fetched = srcFiles
             /\ NamesOf(written) = srcFiles
             /\ \A w \in Range(written) : StoredKey(w.key) \in s3

\* Scenario C: the second run writes again what the first run wrote
C3_Witness ==
    /\ pc = "done"
    /\ self.replace
    /\ run >= 2
    /\ written # <<>>
    /\ NamesOf(written) = srcFiles

\* the step a failure of kind e comes from
FailingStep(e) ==
    CASE e = "ListingFailure" -> {"list_gcs", "sync"}
      [] e = "InvalidRequest" -> {"sync"}
      [] e = "FetchFailure" -> {"loop"}
      [] e = "WriteFailure" -> {"holding"}
      [] OTHER -> {}

\* C4: a failure of a listing, a fetch or a write ends the run at that step
\* with that failure: nothing is retried or skipped, nothing is fetched or
\* written afterwards, and what was written before stays at the destination.
C4_FailureAborts ==
    [][ /\ pc = "aborted" => UNCHANGED vars
        /\ (err' # "none") <=> (pc' = "aborted")
        /\ (pc' = "aborted" /\ pc # "aborted") =>
             /\ pc \in FailingStep(err')
             /\ s3' = s3
             /\ written' = written
             /\ i' = i
        /\ s3 \subseteq s3'
        /\ NoDuplicates(fetched')
        /\ \A w \in Range(written') : StoredKey(w.key) \in s3'
      ]_vars

\* a write failed after an earlier object was written
C4_Witness ==
    /\ pc = "aborted"
    /\ err = "WriteFailure"
    /\ Len(written) = 1
    /\ Len(files) = 2
    /\ StoredKey(written[1].key) \in s3
    /\ ParseS3Url(PathJoin(self.dest_s3_key, files[2])).ok

\* position of x in q
RECURSIVE IndexOf(_, _)
IndexOf(q, x) == IF q = <<>> \/ Head(q) = x THEN 1 ELSE 1 + IndexOf(Tail(q), x)

\* C5 as stated: the returned sequence is the names written, in the order
\* written, and that order is the one of the source listing.
C5_SourceListingOrder ==
    pc = "done" =>
        /\ result = NamesOf(written)
        /\ \A a, b \in 1..Len(result) :
             a < b => IndexOf(srcFiles, result[a]) < IndexOf(srcFiles, result[b])

\* C5 amended: the returned sequence is the names written, in the order
\* written; with replace = true it is the source listing, with replace =
\* false it holds each transferred name once, in an order not determined.
C5_ReturnsWrittenInOrder ==
    /\ NamesOf(written) = SubSeq(files, 1, Len(written))
    /\ pc = "done" =>
         /\ result = NamesOf(written)
         /\ NoDuplicates(result)
         /\ self.replace => result = srcFiles
         /\ ~self.replace => Range(result) = Missing

\* two objects transferred with replace = false
C5_Witness ==
    /\ pc = "done"
    /\ ~self.replace
    /\ Len(result) = 2
    /\ Len(written) = 2

\* C6: when execute has returned or aborted, every request field of the
\* operator has the value it had when execute was called.
C6_RequestImmutable ==
    pc \in {"done", "aborted"} => self = entry

\* the effective destination prefix of the request execute was called with
EffectivePrefix ==
    IF entry.keep_directory_structure \/ entry.prefix = <<>>
    THEN entry.dest_s3_key
    ELSE PathJoin(entry.dest_s3_key, entry.prefix)

Resolved == pc \in {"loop", "holding", "done"} \/ fetched # <<>>

ScenarioE ==
    /\ entry.dest_s3_key = <<S3Loc, Sep, "archive">>
    /\ entry.prefix = <<"logs">>
    /\ ~entry.keep_directory_structure

\* C7: the effective destination prefix is dest_s3_key, or dest_s3_key joined
\* with prefix when keep_directory_structure is false and prefix is not
\* empty; an object named n is written to the effective prefix joined with n:
\* "logs/2024/a.txt" goes to "archive/logs/logs/2024/a.txt" in Scenario E.
C7_DestinationKey ==
    /\ Resolved => self.dest_s3_key = EffectivePrefix
    /\ \A w \in Range(written) :
         /\ w.key = PathJoin(EffectivePrefix, w.name)
         /\ (ScenarioE /\ w.name = <<"logs", Sep, "2024", Sep, "a.txt">>) =>
              /\ w.key = <<S3Loc, Sep, "archive", Sep, "logs", Sep, "logs", Sep,
                           "2024", Sep, "a.txt">>
              /\ <<"archive", Sep, "logs", Sep, "logs", Sep, "2024", Sep, "a.txt">>
                   \in s3

C7_Witness ==
    /\ ScenarioE
    /\ \E w \in Range(written) : w.name = <<"logs", Sep, "2024", Sep, "a.txt">>

\* r is a and b with exactly one separator between them
JoinedWithOneSep(a, b, r) ==
    r = (IF EndsWithSep(a) THEN a ELSE a \o <<Sep>>)
          \o (IF StartsWithSep(b) THEN Tail(b) ELSE b)

\* C8: the join that builds the effective destination prefix and each
\* destination key puts exactly one separator between its two segments,
\* whether or not the left one ends with a separator or the right one starts
\* with one; the result begins with the left segment.
C8_JoinOneSeparator ==
    /\ pc = "holding" => JoinedWithOneSep(self.dest_s3_key, files[i], DestKey)
    /\ (Resolved /\ ~entry.keep_directory_structure /\ entry.prefix # <<>>) =>
         JoinedWithOneSep(entry.dest_s3_key, entry.prefix, self.dest_s3_key)

\* the number of separators s ends with
RECURSIVE TrailingSeps(_)
TrailingSeps(s) == IF EndsWithSep(s) THEN 1 + TrailingSeps(SubSeq(s, 1, Len(s) - 1)) ELSE 0

\* the prefix parse_s3_url gave for the effective destination key
ParsedPrefix == StoredKey(self.dest_s3_key)

\* C9 as stated: list_keys gets the empty prefix when the parsed prefix is
\* empty, and otherwise a prefix that ends with exactly one separator.
C9_ExactlyOneSeparator ==
    listing.called =>
        /\ ParsedPrefix = <<>> => listing.prefix = <<>>
        /\ ParsedPrefix # <<>> => TrailingSeps(listing.prefix) = 1

\* C9 amended: list_keys gets the empty prefix when the parsed prefix is
\* empty; a parsed prefix that ends with a separator is passed as it is, with
\* all its separators, and any other gets exactly one separator appended.
C9_TrailingSeparator ==
    listing.called =>
        /\ ParsedPrefix = <<>> => listing.prefix = <<>>
        /\ ParsedPrefix # <<>> =>
             /\ StartsWith(listing.prefix, ParsedPrefix)
             /\ TrailingSeps(listing.prefix) >= 1
             /\ TrailingSeps(listing.prefix) =
                  (IF TrailingSeps(ParsedPrefix) = 0 THEN 1 ELSE TrailingSeps(ParsedPrefix))

\* a separator was appended
C9_Witness ==
    /\ listing.called
    /\ ParsedPrefix = <<"archive">>
    /\ listing.prefix = <<"archive", Sep>>

\* the empty prefix was passed on
C9_WitnessEmpty ==
    /\ listing.called
    /\ self.dest_s3_key = <<S3Loc, Sep>>
    /\ listing.prefix = <<>>

\* C10: at most one temporary file is held, the one of the object between
\* its fetch and the end of its write attempt; none is held when the next
\* fetch starts, nor when execute has returned or aborted.
C10_OneTemporaryFile ==
    /\ Cardinality(tmp) <= 1
    /\ pc = "holding" => tmp = {files[i]}
    /\ pc # "holding" => tmp = {}

\* the write of the second object failed: its file is released
C10_Witness ==
    /\ pc = "aborted"
    /\ err = "WriteFailure"
    /\ Len(fetched) = 2
    /\ tmp = {}


=============================================================================
